---- MODULE Spec2Model ----
(***************************************************************************)
(* Model of playwright/network.py: the header codec, Request redirect      *)
(* links and post data properties, Response.ok, the remote calls of        *)
(* Request and Response, and the Route disposition actions that talk to    *)
(* the channel.                                                            *)
(*                                                                         *)
(* Data representation                                                     *)
(*   Optional value : <<>> is Python's None, <<v>> is the value v.         *)
(*   str            : header names/values, paths, method names are TLA+    *)
(*                    strings; a body text is a sequence of code points.   *)
(*   bytes          : a sequence of integers 0..255.                       *)
(*   Dict[str,str]  : a sequence of <<name, value>> pairs with distinct    *)
(*                    names, in insertion order (Python dict order).       *)
(*   params dict    : a function from the keys present to their values.    *)
(***************************************************************************)
EXTENDS Integers, Sequences, FiniteSets, TLC

VARIABLES
    channel,          \* messages handed to self._channel.send, in order
    frame,            \* per Route: the coroutine being run (method, arguments)
    pc,               \* per Route: "idle" | "running" | "awaiting"
    result,           \* per Route: how the last awaited call came back
    requests,         \* Request objects constructed so far
    initializer,      \* per Request: initializer["redirectedFrom"]
    redirected_from,  \* per Request: self._redirected_from
    redirected_to,    \* per Request: self._redirected_to
    codec,            \* a caller of the header codec: its value and what came back
    response,         \* a Response: initializer["status"] and what `ok` returned
    session,          \* the session that owns the entities: "open" | "disposed"
    coro,             \* the coroutine run on a Request / Response and what it returned
    req               \* a Request: initializer postData and headers, what was read

routeVars == <<channel, frame, pc, result>>
requestVars == <<requests, initializer, redirected_from, redirected_to>>
vars == <<channel, frame, pc, result, requests, initializer, redirected_from,
          redirected_to, codec, response, session, coro, req>>

----------------------------------------------------------------------------
(* Bounds *)

NumRoutes == 2        \* Route objects delivered by the channel
MaxSent == 3          \* calls made on the Routes of one run
MaxRequests == 5      \* Request objects constructed in one run
MaxBodyLen == 2       \* code points of a text body / bytes of a raw body
MaxHeaders == 3       \* entries of a header list or mapping given to the codec
MaxStatus == 301      \* largest status of a Response

Routes == 1..NumRoutes
RequestIds == 1..MaxRequests

----------------------------------------------------------------------------
(* Python values *)

None == <<>>
Some(v) == <<v>>

\* Python truthiness of an Optional[str]: None and "" are falsy.
Truthy(opt) == opt # None /\ opt[1] # ""

RECURSIVE Flatten(_)
Flatten(ss) == IF ss = <<>> THEN <<>> ELSE Head(ss) \o Flatten(Tail(ss))

\* str.encode(): UTF-8 bytes of one code point.
Utf8OfCodePoint(cp) ==
    IF cp < 128 THEN <<cp>>
    ELSE IF cp < 2048 THEN <<192 + (cp \div 64), 128 + (cp % 64)>>
    ELSE IF cp < 65536
        THEN <<224 + (cp \div 4096), 128 + ((cp \div 64) % 64), 128 + (cp % 64)>>
    ELSE <<240 + (cp \div 262144), 128 + ((cp \div 4096) % 64),
           128 + ((cp \div 64) % 64), 128 + (cp % 64)>>

\* str.encode(): UTF-8 bytes of a text.
StrEncode(s) == Flatten([i \in 1..Len(s) |-> Utf8OfCodePoint(s[i])])

\* The base64 alphabet: the ASCII code of the symbol for a 6-bit group.
B64Symbol(i) ==
    IF i < 26 THEN 65 + i
    ELSE IF i < 52 THEN 97 + (i - 26)
    ELSE IF i < 62 THEN 48 + (i - 52)
    ELSE IF i = 62 THEN 43 ELSE 47

B64Pad == 61

\* base64.b64encode(b): the ASCII bytes of the standard base64 text of b.
RECURSIVE B64Encode(_)
B64Encode(b) ==
    IF Len(b) = 0 THEN <<>>
    ELSE IF Len(b) = 1
        THEN <<B64Symbol(b[1] \div 4), B64Symbol((b[1] % 4) * 16), B64Pad, B64Pad>>
    ELSE IF Len(b) = 2
        THEN <<B64Symbol(b[1] \div 4),
               B64Symbol((b[1] % 4) * 16 + (b[2] \div 16)),
               B64Symbol((b[2] % 16) * 4), B64Pad>>
    ELSE <<B64Symbol(b[1] \div 4),
           B64Symbol((b[1] % 4) * 16 + (b[2] \div 16)),
           B64Symbol((b[2] % 16) * 4 + (b[3] \div 64)),
           B64Symbol(b[3] % 64)>> \o B64Encode(SubSeq(b, 4, Len(b)))

\* The 6-bit group a base64 symbol stands for.
B64Index(c) ==
    IF c >= 65 /\ c <= 90 THEN c - 65
    ELSE IF c >= 97 /\ c <= 122 THEN c - 97 + 26
    ELSE IF c >= 48 /\ c <= 57 THEN c - 48 + 52
    ELSE IF c = 43 THEN 62 ELSE 63

\* base64.b64decode(t): the bytes of a padded standard base64 text.
RECURSIVE B64Decode(_)
B64Decode(t) ==
    IF Len(t) < 4 THEN <<>>
    ELSE LET a == B64Index(t[1])
             b == B64Index(t[2])
             c == B64Index(t[3])
             d == B64Index(t[4])
             group == IF t[3] = B64Pad THEN <<a * 4 + (b \div 16)>>
                      ELSE IF t[4] = B64Pad
                          THEN <<a * 4 + (b \div 16), (b % 16) * 16 + (c \div 4)>>
                      ELSE <<a * 4 + (b \div 16), (b % 16) * 16 + (c \div 4),
                             (c % 4) * 64 + d>>
         IN group \o B64Decode(SubSeq(t, 5, Len(t)))

\* bytes.decode(): number of bytes of the UTF-8 sequence a lead byte starts.
Utf8SeqLen(lead) ==
    IF lead < 128 THEN 1 ELSE IF lead < 224 THEN 2 ELSE IF lead < 240 THEN 3 ELSE 4

\* bytes.decode(): the code point of the UTF-8 sequence at the head of b.
Utf8HeadCodePoint(b) ==
    IF b[1] < 128 THEN b[1]
    ELSE IF b[1] < 224 THEN (b[1] - 192) * 64 + (b[2] - 128)
    ELSE IF b[1] < 240
        THEN (b[1] - 224) * 4096 + (b[2] - 128) * 64 + (b[3] - 128)
    ELSE (b[1] - 240) * 262144 + (b[2] - 128) * 4096 + (b[3] - 128) * 64 + (b[4] - 128)

\* bytes.decode(): the text of well-formed UTF-8 bytes.
RECURSIVE BytesDecode(_)
BytesDecode(b) ==
    IF Len(b) = 0 THEN <<>>
    ELSE <<Utf8HeadCodePoint(b)>> \o BytesDecode(SubSeq(b, Utf8SeqLen(b[1]) + 1, Len(b)))

\* bytes.decode(): whether b is well-formed UTF-8 (lead byte and continuation
\* bytes; a malformed sequence makes decode raise UnicodeDecodeError).
RECURSIVE Utf8Valid(_)
Utf8Valid(b) ==
    IF Len(b) = 0 THEN TRUE
    ELSE LET n == Utf8SeqLen(b[1])
         IN /\ b[1] < 128 \/ (b[1] >= 194 /\ b[1] <= 244)
            /\ Len(b) >= n
            /\ \A i \in 2..n : b[i] >= 128 /\ b[i] <= 191
            /\ Utf8Valid(SubSeq(b, n + 1, Len(b)))

\* str(length) for a non-negative int.
IntToStr(n) == ToString(n)

\* The payload texts of the model, as code points.
FormText == <<97, 61, 49, 38, 98, 61, 50>>          \* a=1&b=2
JsonText == <<123, 34, 97, 34, 58, 49, 125>>        \* {"a":1}
BadText == <<123>>                                  \* {

\* json.loads(text) on the texts of the model: Some(value), or None where it
\* raises json.JSONDecodeError. The object {"a": 1} is the mapping <<"a", 1>>.
JsonLoads(text) ==
    IF text = JsonText THEN Some(<<<<"a", 1>>>>) ELSE None

\* dict(parse.parse_qsl(text)) on the texts of the model: the name=value pieces
\* between the & separators; a piece without = is dropped.
ParseQsl(text) ==
    IF text = FormText THEN <<<<"a", "1">>, <<"b", "2">>>> ELSE <<>>

\* str.lower() on the header names of the model.
Lower(name) ==
    CASE name = "Content-Type" -> "content-type"
      [] name = "Content-Length" -> "content-length"
      [] name = "CONTENT-TYPE" -> "content-type"
      [] name = "X-Foo" -> "x-foo"
      [] name = "X-FOO" -> "x-foo"
      [] name = "A" -> "a"
      [] OTHER -> name

----------------------------------------------------------------------------
(* Dict[str, str] as an insertion-ordered sequence of <<name, value>> pairs *)

DictKeys(d) == {d[i][1] : i \in 1..Len(d)}

DictHas(d, k) == k \in DictKeys(d)

DictGet(d, k) == d[CHOOSE i \in 1..Len(d) : d[i][1] = k][2]

\* d[k] = v: an existing key keeps its position, a new key goes last.
DictSet(d, k, v) ==
    IF DictHas(d, k)
    THEN [i \in 1..Len(d) |-> IF d[i][1] = k THEN <<k, v>> ELSE d[i]]
    ELSE Append(d, <<k, v>>)

\* Python's == on two dicts: the same keys with the same values, in any order.
DictEq(d, e) ==
    /\ DictKeys(d) = DictKeys(e)
    /\ \A k \in DictKeys(d) : DictGet(d, k) = DictGet(e, k)

\* A params dict (order never observed): a function on the keys present.
ParamsSet(p, k, v) == [x \in (DOMAIN p) \cup {k} |-> IF x = k THEN v ELSE p[x]]

ParamsDel(p, k) == [x \in (DOMAIN p) \ {k} |-> p[x]]

EmptyParams == [x \in {} |-> None]

----------------------------------------------------------------------------
(* Header codec *)

\* Mutant: the names are normalised to lower case on the way out.
serialize_headers_lowercased(headers) ==
    [i \in 1..Len(headers) |-> [name |-> Lower(headers[i][1]), value |-> headers[i][2]]]

\* [{"name": name, "value": value} for name, value in headers.items()]
serialize_headers(headers) ==
    [i \in 1..Len(headers) |-> [name |-> headers[i][1], value |-> headers[i][2]]]

\* Mutant: the first entry of a name wins instead of the last.
RECURSIVE parse_headers_first_wins(_)
parse_headers_first_wins(headers) ==
    IF headers = <<>> THEN <<>>
    ELSE LET n == Len(headers)
             rest == parse_headers_first_wins(SubSeq(headers, 1, n - 1))
         IN IF DictHas(rest, headers[n].name) THEN rest
            ELSE DictSet(rest, headers[n].name, headers[n].value)

\* {header["name"]: header["value"] for header in headers}
RECURSIVE parse_headers(_)
parse_headers(headers) ==
    IF headers = <<>> THEN <<>>
    ELSE LET n == Len(headers)
             last == headers[n]
         IN DictSet(parse_headers(SubSeq(headers, 1, n - 1)), last.name, last.value)

----------------------------------------------------------------------------
(* Collaborators of Route.fulfill *)

\* mimetypes.guess_type(str(Path(path)))[0]: the type of the extension, or None.
GuessType(path) ==
    CASE path = "icon.png" -> Some("image/png")
      [] path = "page.html" -> Some("text/html")
      [] path = "empty.txt" -> Some("text/plain")
      [] OTHER -> None

\* Path(path).read_bytes(): the files of the model's file system.
ReadBytes(path) ==
    CASE path = "icon.png" -> <<137, 80>>
      [] path = "page.html" -> <<60, 104, 62, 10>>
      [] path = "file.zzz" -> <<0, 255, 7>>
      [] OTHER -> <<>>

\* locals_to_params(locals()): the arguments that are not None, by name.
locals_to_params(args) ==
    [k \in {x \in DOMAIN args : args[x] # None} |-> args[k][1]]

----------------------------------------------------------------------------
(* Route.fulfill, lines 134-160: the params it hands to the channel *)

IsStr(body) == body # None /\ body[1].type = "str"

IsBytes(body) == body # None /\ body[1].type = "bytes"

\* params after the body resolution: body, isBase64, and path dropped when read.
FulfillBodyParams(args) ==
    LET params == locals_to_params(args)
    IN IF IsStr(args.body)
       THEN ParamsSet(ParamsSet(params, "body", args.body[1].val), "isBase64", FALSE)
       ELSE IF IsBytes(args.body)
       THEN ParamsSet(ParamsSet(params, "body",
                                BytesDecode(B64Encode(args.body[1].val))),
                      "isBase64", TRUE)
       ELSE IF Truthy(args.path)
       THEN ParamsSet(ParamsSet(ParamsDel(params, "path"), "body",
                                BytesDecode(B64Encode(ReadBytes(args.path[1])))),
                      "isBase64", TRUE)
       ELSE params

\* Mutant: the length of a text body is counted in characters, not in bytes.
FulfillLengthInChars(args) ==
    IF IsStr(args.body) THEN Len(args.body[1].val)
    ELSE IF IsBytes(args.body) THEN Len(args.body[1].val)
    ELSE IF Truthy(args.path) THEN Len(ReadBytes(args.path[1]))
    ELSE 0

\* The local `length` after the body resolution.
FulfillLength(args) ==
    IF IsStr(args.body) THEN Len(StrEncode(args.body[1].val))
    ELSE IF IsBytes(args.body) THEN Len(args.body[1].val)
    ELSE IF Truthy(args.path) THEN Len(ReadBytes(args.path[1]))
    ELSE 0

\* Mutant: the caller's header names are kept as written.
LowerHeadersKeepCase(d) == d

\* {k.lower(): str(v) for k, v in params.get("headers", {}).items()}
RECURSIVE LowerHeaders(_)
LowerHeaders(d) ==
    IF d = <<>> THEN <<>>
    ELSE LET n == Len(d)
         IN DictSet(LowerHeaders(SubSeq(d, 1, n - 1)), Lower(d[n][1]), d[n][2])

\* Mutant: a content-type header of the caller is kept when a path is given.
FulfillContentTypeKeepsHeader(params, path, headers) ==
    IF "contentType" \in DOMAIN params /\ params["contentType"] # ""
    THEN DictSet(headers, "content-type", params["contentType"])
    ELSE IF Truthy(path) /\ ~DictHas(headers, "content-type")
    THEN DictSet(headers, "content-type",
                 IF GuessType(path[1]) # None /\ GuessType(path[1])[1] # ""
                 THEN GuessType(path[1])[1]
                 ELSE "application/octet-stream")
    ELSE headers

\* Mutant: no fallback type when the extension is unknown.
FulfillContentTypeNoFallback(params, path, headers) ==
    IF "contentType" \in DOMAIN params /\ params["contentType"] # ""
    THEN DictSet(headers, "content-type", params["contentType"])
    ELSE IF Truthy(path) /\ GuessType(path[1]) # None
    THEN DictSet(headers, "content-type", GuessType(path[1])[1])
    ELSE headers

\* Lines 152-157: the content-type entry of the headers.
FulfillContentType(params, path, headers) ==
    IF "contentType" \in DOMAIN params /\ params["contentType"] # ""
    THEN DictSet(headers, "content-type", params["contentType"])
    ELSE IF Truthy(path)
    THEN DictSet(headers, "content-type",
                 IF GuessType(path[1]) # None /\ GuessType(path[1])[1] # ""
                 THEN GuessType(path[1])[1]
                 ELSE "application/octet-stream")
    ELSE headers

\* Mutant: the derived length replaces a content-length header of the caller.
FulfillContentLengthOverwrites(length, headers) ==
    IF length # 0
    THEN DictSet(headers, "content-length", IntToStr(length))
    ELSE headers

\* Lines 158-159: the derived content-length entry of the headers.
FulfillContentLength(length, headers) ==
    IF length # 0 /\ ~DictHas(headers, "content-length")
    THEN DictSet(headers, "content-length", IntToStr(length))
    ELSE headers

\* The dict `headers` built by lines 151-159.
FulfillHeaders(args) ==
    LET params == FulfillBodyParams(args)
        given == IF "headers" \in DOMAIN params THEN params["headers"] ELSE <<>>
    IN FulfillContentLength(FulfillLength(args),
                            FulfillContentType(params, args.path, LowerHeaders(given)))

\* The params of self._channel.send("fulfill", params).
fulfill_params(args) ==
    ParamsSet(FulfillBodyParams(args), "headers", serialize_headers(FulfillHeaders(args)))

----------------------------------------------------------------------------
(* Route.continue_, lines 169-177: the overrides it hands to the channel *)

\* Mutant: a text postData is sent verbatim, as fulfill sends a text body.
continue_overrides_text_verbatim(args) ==
    LET o1 == IF Truthy(args.method)
              THEN ParamsSet(EmptyParams, "method", args.method[1]) ELSE EmptyParams
        o2 == IF args.headers # None /\ args.headers[1] # <<>>
              THEN ParamsSet(o1, "headers", serialize_headers(args.headers[1])) ELSE o1
    IN IF IsStr(args.postData)
       THEN ParamsSet(o2, "postData", args.postData[1].val)
       ELSE IF IsBytes(args.postData)
       THEN ParamsSet(o2, "postData", BytesDecode(B64Encode(args.postData[1].val)))
       ELSE o2

continue_overrides(args) ==
    LET o1 == IF Truthy(args.method)
              THEN ParamsSet(EmptyParams, "method", args.method[1]) ELSE EmptyParams
        o2 == IF args.headers # None /\ args.headers[1] # <<>>
              THEN ParamsSet(o1, "headers", serialize_headers(args.headers[1])) ELSE o1
    IN IF IsStr(args.postData)
       THEN ParamsSet(o2, "postData",
                      BytesDecode(B64Encode(StrEncode(args.postData[1].val))))
       ELSE IF IsBytes(args.postData)
       THEN ParamsSet(o2, "postData", BytesDecode(B64Encode(args.postData[1].val)))
       ELSE o2

----------------------------------------------------------------------------
(* Arguments the callers of the model pass *)

Str(s) == Some([type |-> "str", val |-> s])
Bytes(b) == Some([type |-> "bytes", val |-> b])

RECURSIVE SeqsUpTo(_, _)
SeqsUpTo(S, n) ==
    IF n = 0 THEN {<<>>}
    ELSE LET shorter == SeqsUpTo(S, n - 1)
         IN shorter \cup {Append(s, x) : s \in shorter, x \in S}

AbortArgs == {[errorCode |-> None], [errorCode |-> Some("failed")]}

NoFulfillArgs ==
    [status |-> None, headers |-> None, body |-> None, path |-> None, contentType |-> None]

NoContinueArgs == [method |-> None, headers |-> None, postData |-> None]

\* The calls of the disposition protocol: one shape of arguments per action.
ProtocolCalls ==
    {[method |-> "abort", args |-> a] : a \in AbortArgs}
    \cup {[method |-> "fulfill", args |-> [NoFulfillArgs EXCEPT !.body = Str(<<104>>)]]}
    \cup {[method |-> "continue", args |-> [NoContinueArgs EXCEPT !.method = Some("POST")]]}

NoFrame == [method |-> "none", args |-> None]

TextAlphabet == {104, 233, 8364, 128512}     \* h, e-acute, euro sign, an emoji
ByteAlphabet == {0, 72, 255}

Bodies ==
    {None} \cup {Str(t) : t \in SeqsUpTo(TextAlphabet, MaxBodyLen)}
           \cup {Bytes(b) : b \in SeqsUpTo(ByteAlphabet, MaxBodyLen)}

Paths == {None, Some("icon.png"), Some("page.html"), Some("empty.txt"), Some("file.zzz")}

ContentTypes == {None, Some("text/css")}

FulfillHeaderArgs ==
    {None, Some(<<>>),
     Some(<<<<"Content-Type", "text/plain">>>>),
     Some(<<<<"content-type", "text/plain">>>>),
     Some(<<<<"Content-Length", "99">>>>),
     Some(<<<<"X-Foo", "1">>, <<"X-FOO", "2">>>>),
     Some(<<<<"Content-Type", "text/a">>, <<"content-type", "text/b">>>>),
     Some(<<<<"X-Foo", "1">>, <<"Content-Type", "text/plain">>, <<"content-length", "99">>>>)}

\* Every combination of arguments a caller of fulfill passes.
FulfillArgs ==
    {[status |-> st, headers |-> h, body |-> b, path |-> p, contentType |-> ct] :
        st \in {None, Some(404)}, h \in FulfillHeaderArgs, b \in Bodies,
        p \in Paths, ct \in ContentTypes}

ContinueMethods == {None, Some(""), Some("POST")}

ContinueHeaderArgs ==
    {None, Some(<<>>), Some(<<<<"A", "1">>>>), Some(<<<<"X-Foo", "1">>, <<"X-FOO", "2">>>>)}

\* Every combination of arguments a caller of continue_ passes.
ContinueArgs ==
    {[method |-> m, headers |-> h, postData |-> d] :
        m \in ContinueMethods, h \in ContinueHeaderArgs, d \in Bodies}

\* The same call with a text postData handed over as its UTF-8 bytes instead.
BytesTwin(args) ==
    IF IsStr(args.postData)
    THEN [args EXCEPT !.postData = Bytes(StrEncode(args.postData[1].val))]
    ELSE args

----------------------------------------------------------------------------
(* Route: the three disposition actions and the channel's reply *)

Running == {r \in Routes : pc[r] = "running"}

\* A caller invokes one of the coroutines abort / fulfill / continue_ on Route r.
Invoke(r, call) ==
    /\ pc[r] = "idle"
    /\ Len(channel) + Cardinality(Running) < MaxSent
    /\ frame' = [frame EXCEPT ![r] = call]
    /\ pc' = [pc EXCEPT ![r] = "running"]
    /\ UNCHANGED <<channel, result, requestVars, codec, response, session, coro, req>>

Send(r, method, params) ==
    /\ channel' = Append(channel, [guid |-> r, method |-> method, params |-> params])
    /\ pc' = [pc EXCEPT ![r] = "awaiting"]
    /\ UNCHANGED <<frame, result, requestVars, codec, response, session, coro, req>>

\* await self._channel.send("abort", locals_to_params(locals()))
abort(r) ==
    /\ pc[r] = "running" /\ frame[r].method = "abort"
    /\ Send(r, "abort", locals_to_params(frame[r].args))

fulfill(r) ==
    /\ pc[r] = "running" /\ frame[r].method = "fulfill"
    /\ Send(r, "fulfill", fulfill_params(frame[r].args))

continue_(r) ==
    /\ pc[r] = "running" /\ frame[r].method = "continue"
    /\ Send(r, "continue", continue_overrides(frame[r].args))

\* The channel answers the outstanding call of Route r; the await returns or raises.
Reply(r, outcome) ==
    /\ pc[r] = "awaiting"
    /\ result' = [result EXCEPT ![r] = outcome]
    /\ pc' = [pc EXCEPT ![r] = "idle"]
    /\ frame' = [frame EXCEPT ![r] = NoFrame]
    /\ UNCHANGED <<channel, requestVars, codec, response, session, coro, req>>

ReplyOutcomes == {"ok", "RemoteCallFailure"}

RouteInit ==
    /\ channel = <<>>
    /\ frame = [r \in Routes |-> NoFrame]
    /\ pc = [r \in Routes |-> "idle"]
    /\ result = [r \in Routes |-> "none"]

----------------------------------------------------------------------------
(* Request.__init__, lines 36-46: the redirect links *)

\* Mutant: the predecessor's _redirected_to is not written.
RequestInitNoBackLink(b, pred) ==
    /\ b \notin requests
    /\ b = Cardinality(requests) + 1
    /\ IF pred = None THEN TRUE ELSE pred[1] \in requests
    /\ requests' = requests \cup {b}
    /\ initializer' = [initializer EXCEPT ![b] = pred]
    /\ redirected_from' = [redirected_from EXCEPT ![b] = pred]
    /\ redirected_to' = [redirected_to EXCEPT ![b] = None]
    /\ UNCHANGED <<routeVars, codec, response, session, coro, req>>

\* Request(parent, type, guid, initializer) with initializer["redirectedFrom"] = pred.
RequestInit(b, pred) ==
    /\ b \notin requests
    /\ b = Cardinality(requests) + 1
    /\ IF pred = None THEN TRUE ELSE pred[1] \in requests
    /\ requests' = requests \cup {b}
    /\ initializer' = [initializer EXCEPT ![b] = pred]
    /\ redirected_from' = [redirected_from EXCEPT ![b] = pred]
    /\ redirected_to' =
           IF pred # None
           THEN [redirected_to EXCEPT ![b] = None, ![pred[1]] = Some(b)]
           ELSE [redirected_to EXCEPT ![b] = None]
    /\ UNCHANGED <<routeVars, codec, response, session, coro, req>>

RequestsInit ==
    /\ requests = {}
    /\ initializer = [r \in RequestIds |-> None]
    /\ redirected_from = [r \in RequestIds |-> None]
    /\ redirected_to = [r \in RequestIds |-> None]

----------------------------------------------------------------------------
(* Callers of the header codec *)

HeaderNames == {"A", "a", "X-Foo"}
HeaderValues == {"1", "2"}

\* Wire form: every ordered list of {name, value} entries, names may repeat.
HeaderLists ==
    SeqsUpTo({[name |-> n, value |-> v] : n \in HeaderNames, v \in HeaderValues},
             MaxHeaders)

\* API form: every mapping, as its entries in insertion order (keys unique).
HeaderDicts ==
    {d \in SeqsUpTo(HeaderNames \X HeaderValues, MaxHeaders) :
        \A i, j \in 1..Len(d) : d[i][1] = d[j][1] => i = j}

NoCodec == [src |-> "none", map |-> None, wire |-> None, out |-> None]

\* A caller holds a mapping (to serialize and parse back) or a header list (to parse).
CodecInit ==
    codec \in {[src |-> "map", map |-> Some(d), wire |-> None, out |-> None] :
                  d \in HeaderDicts}
              \cup {[src |-> "wire", map |-> None, wire |-> Some(l), out |-> None] :
                       l \in HeaderLists}

CallSerialize ==
    /\ codec.src = "map" /\ codec.wire = None
    /\ codec' = [codec EXCEPT !.wire = Some(serialize_headers(codec.map[1]))]
    /\ UNCHANGED <<routeVars, requestVars, response, session, coro, req>>

CallParse ==
    /\ codec.wire # None /\ codec.out = None
    /\ codec' = [codec EXCEPT !.out = Some(parse_headers(codec.wire[1]))]
    /\ UNCHANGED <<routeVars, requestVars, response, session, coro, req>>

----------------------------------------------------------------------------
(* Response.ok, lines 191-195 *)

Statuses == (0 - 1)..MaxStatus

\* Mutant: the upper end of the success range is left out.
ok_exclusive(status) == status = 0 \/ (status >= 200 /\ status < 299)

ok(status) == status = 0 \/ (status >= 200 /\ status <= 299)

NoResponse == [status |-> 0, ok |-> None]

ResponseInit == response \in {[status |-> s, ok |-> None] : s \in Statuses}

ReadOk ==
    /\ response.ok = None
    /\ response' = [response EXCEPT !.ok = Some(ok(response.status))]
    /\ UNCHANGED <<routeVars, requestVars, codec, session, coro, req>>

----------------------------------------------------------------------------
(* Request: the post data properties, lines 60-88 *)

\* What a property of the model returned: a value of some kind, None, or the
\* exception it raised.
Returned(kind, val) == [kind |-> kind, val |-> val]

Unread == Returned("unread", <<>>)

ReturnedNone == Returned("None", <<>>)

Raised(exception) == Returned(exception, <<>>)

IsError(out) ==
    out.kind \in {"KeyError", "UnicodeDecodeError", "JSONDecodeError",
                  "RemoteCallFailure", "Disposed"}

\* Lines 79-84: base64-decoded initializer postData, None when absent or empty.
postDataBuffer(rq) ==
    IF rq.postData = None \/ rq.postData = Some(<<>>) THEN ReturnedNone
    ELSE Returned("bytes", B64Decode(rq.postData[1]))

\* Lines 60-65: the payload decoded as UTF-8 text, None when there is none.
postData(rq) ==
    LET data == postDataBuffer(rq)
    IN IF data.kind = "None" \/ data.val = <<>> THEN ReturnedNone
       ELSE IF Utf8Valid(data.val) THEN Returned("str", BytesDecode(data.val))
       ELSE Raised("UnicodeDecodeError")

\* Lines 86-88: parse_headers(self._initializer["headers"])
headers(rq) == parse_headers(rq.headers)

\* Mutant: any content-type starting with the form type is parsed as a form.
postDataJSON_form_prefix(rq) ==
    LET post_data == postData(rq)
    IN IF IsError(post_data) THEN post_data
       ELSE IF post_data.kind = "None" \/ post_data.val = <<>> THEN ReturnedNone
       ELSE IF ~DictHas(headers(rq), "content-type") THEN Raised("KeyError")
       ELSE LET content_type == DictGet(headers(rq), "content-type")
            IN IF content_type = "" THEN ReturnedNone
               ELSE IF content_type \in {"application/x-www-form-urlencoded",
                                         "application/x-www-form-urlencoded; charset=UTF-8"}
               THEN Returned("dict", ParseQsl(post_data.val))
               ELSE IF JsonLoads(post_data.val) = None THEN Raised("JSONDecodeError")
               ELSE Returned("json", JsonLoads(post_data.val)[1])

\* Lines 67-77: the payload parsed as a form or as JSON, by the content-type header.
postDataJSON(rq) ==
    LET post_data == postData(rq)
    IN IF IsError(post_data) THEN post_data
       ELSE IF post_data.kind = "None" \/ post_data.val = <<>> THEN ReturnedNone
       ELSE IF ~DictHas(headers(rq), "content-type") THEN Raised("KeyError")
       ELSE LET content_type == DictGet(headers(rq), "content-type")
            IN IF content_type = "" THEN ReturnedNone
               ELSE IF content_type = "application/x-www-form-urlencoded"
               THEN Returned("dict", ParseQsl(post_data.val))
               ELSE IF JsonLoads(post_data.val) = None THEN Raised("JSONDecodeError")
               ELSE Returned("json", JsonLoads(post_data.val)[1])

\* The payloads the channel delivers in initializer["postData"]: None, or the
\* base64 text of some bytes (no byte, form text, JSON text, bad JSON, not UTF-8).
PayloadBytes == {<<>>, StrEncode(FormText), StrEncode(JsonText), StrEncode(BadText), <<255>>}

InitializerPostData == {None} \cup {Some(B64Encode(b)) : b \in PayloadBytes}

Header(name, value) == [name |-> name, value |-> value]

\* The header lists the channel delivers in initializer["headers"].
InitializerHeaders ==
    {<<>>,
     <<Header("x-foo", "1")>>,
     <<Header("content-type", "application/json")>>,
     <<Header("content-type", "application/x-www-form-urlencoded")>>,
     <<Header("content-type", "application/x-www-form-urlencoded; charset=UTF-8")>>,
     <<Header("content-type", "")>>,
     <<Header("Content-Type", "application/json")>>,
     <<Header("content-type", "application/json"),
       Header("content-type", "application/x-www-form-urlencoded")>>}

NoReq == [postData |-> None, headers |-> <<>>, post_data |-> Unread, json |-> Unread]

ReqInit ==
    req \in {[NoReq EXCEPT !.postData = d, !.headers = h] :
                d \in InitializerPostData, h \in InitializerHeaders}

\* A caller reads request.postData.
ReadPostData ==
    /\ req' = [req EXCEPT !.post_data = postData(req)]
    /\ UNCHANGED <<routeVars, requestVars, codec, response, session, coro>>

\* A caller reads request.postDataJSON.
ReadPostDataJSON ==
    /\ req' = [req EXCEPT !.json = postDataJSON(req)]
    /\ UNCHANGED <<routeVars, requestVars, codec, response, session, coro>>

----------------------------------------------------------------------------
(* Request.response and Response.finished / body / text / json, lines 90-91, 209-221 *)

\* The remote identity of the Request / Response the coroutines of `call` run on.
ObjectGuid == NumRoutes + 1

ObjectMethods == {"response", "finished", "body", "text", "json"}

\* The operation a method sends: text() awaits body(), json() awaits text().
RemoteOp(method) == IF method \in {"response", "finished"} THEN method ELSE "body"

\* Line 91: from_nullable_channel(await self._channel.send("response"))
response_returns(answer) ==
    IF answer.outcome # "ok" THEN Raised(answer.outcome)
    ELSE IF answer.value = <<>> THEN ReturnedNone
    ELSE Returned("Response", answer.value)

\* Line 210: return await self._channel.send("finished")
finished_returns(answer) ==
    IF answer.outcome # "ok" THEN Raised(answer.outcome)
    ELSE IF answer.value = <<>> THEN ReturnedNone
    ELSE Returned("str", answer.value)

\* Lines 213-214: binary = await self._channel.send("body"); base64.b64decode(binary)
body_returns(answer) ==
    IF answer.outcome # "ok" THEN Raised(answer.outcome)
    ELSE Returned("bytes", B64Decode(answer.value))

\* Mutant: text() catches the failure of body() and returns the empty text.
text_returns_swallowing(answer) ==
    LET content == body_returns(answer)
    IN IF IsError(content) THEN Returned("str", <<>>)
       ELSE IF Utf8Valid(content.val) THEN Returned("str", BytesDecode(content.val))
       ELSE Raised("UnicodeDecodeError")

\* Lines 217-218: content = await self.body(); return content.decode()
text_returns(answer) ==
    LET content == body_returns(answer)
    IN IF IsError(content) THEN content
       ELSE IF Utf8Valid(content.val) THEN Returned("str", BytesDecode(content.val))
       ELSE Raised("UnicodeDecodeError")

\* Line 221: return json.loads(await self.text())
json_returns(answer) ==
    LET text == text_returns(answer)
    IN IF IsError(text) THEN text
       ELSE IF JsonLoads(text.val) = None THEN Raised("JSONDecodeError")
       ELSE Returned("json", JsonLoads(text.val)[1])

MethodReturns(method, answer) ==
    CASE method = "response" -> response_returns(answer)
      [] method = "finished" -> finished_returns(answer)
      [] method = "body" -> body_returns(answer)
      [] method = "text" -> text_returns(answer)
      [] method = "json" -> json_returns(answer)

\* No coroutine runs; wire_body is the body of the Response as the channel
\* transports it, done / result the method that returned last and what it returned.
NoCall ==
    [method |-> "none", pc |-> "idle", wire_body |-> <<>>, done |-> "none", result |-> Unread]

\* The bodies a Response of the model has: none, JSON text, bad JSON, not UTF-8.
ResponseBodies == {<<>>, StrEncode(JsonText), StrEncode(BadText), <<255>>}

CallInit == coro \in {[NoCall EXCEPT !.wire_body = B64Encode(b)] : b \in ResponseBodies}

\* A caller invokes one of the coroutines on the Request / Response.
CallObject(method) ==
    /\ coro.pc = "idle"
    /\ Len(channel) < MaxSent
    /\ coro' = [coro EXCEPT !.method = method, !.pc = "running"]
    /\ UNCHANGED <<routeVars, requestVars, codec, response, session, req>>

\* The coroutine reaches self._channel.send(...) and is suspended on the reply.
SendCall ==
    /\ coro.pc = "running"
    /\ channel' = Append(channel, [guid |-> ObjectGuid, method |-> RemoteOp(coro.method),
                                   params |-> EmptyParams])
    /\ coro' = [coro EXCEPT !.pc = "awaiting"]
    /\ UNCHANGED <<frame, pc, result, requestVars, codec, response, session, req>>

\* The channel answers; the coroutine runs to its end and returns or raises.
Resumed(answer) ==
    /\ coro.pc = "awaiting"
    /\ coro' = [coro EXCEPT !.pc = "idle", !.method = "none", !.done = coro.method,
                            !.result = MethodReturns(coro.method, answer)]
    /\ UNCHANGED <<routeVars, requestVars, codec, response, session, req>>

\* The channel's answers to an outstanding operation: its reply or a failure while
\* the session is open, the terminal disposed error once the session is disposed.
OkValues(op) ==
    CASE op = "body" -> {coro.wire_body}
      [] op = "response" -> {<<>>, <<1>>}
      [] op = "finished" -> {<<>>, <<102>>}

Answers ==
    IF session = "disposed" THEN {[outcome |-> "Disposed", value |-> <<>>]}
    ELSE {[outcome |-> "RemoteCallFailure", value |-> <<>>]}
         \cup {[outcome |-> "ok", value |-> v] : v \in OkValues(RemoteOp(coro.method))}

AnswerOutcomes == IF session = "disposed" THEN {"Disposed"} ELSE ReplyOutcomes

\* The owning session is disposed.
Dispose ==
    /\ session = "open"
    /\ session' = "disposed"
    /\ UNCHANGED <<routeVars, requestVars, codec, response, coro, req>>

----------------------------------------------------------------------------
(* Specifications *)

RestInit == session = "open" /\ coro = NoCall /\ req = NoReq

\* The disposition protocol: callers invoke actions on Routes, the channel replies.
Init == RouteInit /\ RequestsInit /\ codec = NoCodec /\ response = NoResponse /\ RestInit

Next ==
    \/ \E r \in Routes, call \in ProtocolCalls : Invoke(r, call)
    \/ \E r \in Routes : abort(r)
    \/ \E r \in Routes : fulfill(r)
    \/ \E r \in Routes : continue_(r)
    \/ \E r \in Routes, outcome \in ReplyOutcomes : Reply(r, outcome)

Spec == Init /\ [][Next]_vars

\* The redirect chains: the channel delivers Requests, each naming a predecessor or none.
NextRedirect ==
    \E b \in RequestIds, pred \in {None} \cup {Some(a) : a \in RequestIds} :
        RequestInit(b, pred)

SpecRedirect == Init /\ [][NextRedirect]_vars

\* One fulfill call on a fresh Route, with every combination of arguments.
InitFulfill ==
    /\ channel = <<>>
    /\ \E a \in FulfillArgs :
           frame = [r \in Routes |->
                       IF r = 1 THEN [method |-> "fulfill", args |-> a] ELSE NoFrame]
    /\ pc = [r \in Routes |-> IF r = 1 THEN "running" ELSE "idle"]
    /\ result = [r \in Routes |-> "none"]
    /\ RequestsInit /\ codec = NoCodec /\ response = NoResponse /\ RestInit

NextFulfill ==
    \/ \E r \in Routes : fulfill(r)
    \/ \E r \in Routes, outcome \in ReplyOutcomes : Reply(r, outcome)

SpecFulfill == InitFulfill /\ [][NextFulfill]_vars

\* One continue_ call on Route 1 with every combination of arguments, and on
\* Route 2 the same call with a text postData passed as its UTF-8 bytes.
InitContinue ==
    /\ channel = <<>>
    /\ \E a \in ContinueArgs :
           frame = [r \in Routes |->
                       IF r = 1 THEN [method |-> "continue", args |-> a]
                       ELSE IF r = 2 THEN [method |-> "continue", args |-> BytesTwin(a)]
                       ELSE NoFrame]
    /\ pc = [r \in Routes |-> IF r \in {1, 2} THEN "running" ELSE "idle"]
    /\ result = [r \in Routes |-> "none"]
    /\ RequestsInit /\ codec = NoCodec /\ response = NoResponse /\ RestInit

NextContinue ==
    \/ \E r \in Routes : continue_(r)
    \/ \E r \in Routes, outcome \in ReplyOutcomes : Reply(r, outcome)

SpecContinue == InitContinue /\ [][NextContinue]_vars

\* One headers mapping passed to fulfill on Route 1 and to continue_ on Route 2.
HeaderCaseBodies == {None, Str(<<104>>)}

HeaderCasePaths == {None, Some("icon.png")}

InitHeaderCase ==
    /\ channel = <<>>
    /\ \E h \in FulfillHeaderArgs, b \in HeaderCaseBodies, p \in HeaderCasePaths,
          ct \in ContentTypes :
           frame = [r \in Routes |->
                       IF r = 1
                       THEN [method |-> "fulfill",
                             args |-> [status |-> None, headers |-> h, body |-> b,
                                       path |-> p, contentType |-> ct]]
                       ELSE IF r = 2
                       THEN [method |-> "continue",
                             args |-> [NoContinueArgs EXCEPT !.headers = h]]
                       ELSE NoFrame]
    /\ pc = [r \in Routes |-> IF r \in {1, 2} THEN "running" ELSE "idle"]
    /\ result = [r \in Routes |-> "none"]
    /\ RequestsInit /\ codec = NoCodec /\ response = NoResponse /\ RestInit

NextHeaderCase ==
    \/ \E r \in Routes : fulfill(r)
    \/ \E r \in Routes : continue_(r)
    \/ \E r \in Routes, outcome \in ReplyOutcomes : Reply(r, outcome)

SpecHeaderCase == InitHeaderCase /\ [][NextHeaderCase]_vars

\* The post data properties read on every Request of InitializerPostData x
\* InitializerHeaders.
InitPostData ==
    /\ RouteInit /\ RequestsInit /\ codec = NoCodec /\ response = NoResponse
    /\ session = "open" /\ coro = NoCall /\ ReqInit

NextPostData == ReadPostData \/ ReadPostDataJSON

SpecPostData == InitPostData /\ [][NextPostData]_vars

\* body(), text() and json() called one after the other on one Response.
InitBody ==
    /\ RouteInit /\ RequestsInit /\ codec = NoCodec /\ response = NoResponse
    /\ session = "open" /\ CallInit /\ req = NoReq

NextBody ==
    \/ \E method \in {"body", "text", "json"} : CallObject(method)
    \/ SendCall
    \/ \E answer \in Answers : Resumed(answer)

SpecBody == InitBody /\ [][NextBody]_vars

\* One remote call (a Route action, Request.response or a Response method) during
\* which the session may be disposed. The channel answers every outstanding call
\* and the event loop runs every coroutine that can run.
InitTeardown ==
    /\ channel = <<>> /\ result = [r \in Routes |-> "none"]
    /\ RequestsInit /\ codec = NoCodec /\ response = NoResponse
    /\ session = "open" /\ req = NoReq
    /\ \/ /\ \E caller \in Routes, c \in ProtocolCalls :
                 /\ frame = [r \in Routes |-> IF r = caller THEN c ELSE NoFrame]
                 /\ pc = [r \in Routes |-> IF r = caller THEN "running" ELSE "idle"]
          /\ coro = NoCall
       \/ /\ frame = [r \in Routes |-> NoFrame]
          /\ pc = [r \in Routes |-> "idle"]
          /\ \E method \in ObjectMethods, b \in ResponseBodies :
                 coro = [NoCall EXCEPT !.method = method, !.pc = "running",
                                       !.wire_body = B64Encode(b)]

RunTeardown ==
    \/ \E r \in Routes : abort(r)
    \/ \E r \in Routes : fulfill(r)
    \/ \E r \in Routes : continue_(r)
    \/ \E r \in Routes, outcome \in AnswerOutcomes : Reply(r, outcome)
    \/ SendCall
    \/ \E answer \in Answers : Resumed(answer)

NextTeardown == RunTeardown \/ Dispose

SpecTeardown == InitTeardown /\ [][NextTeardown]_vars /\ WF_vars(RunTeardown)

\* The header codec applied to every mapping and every header list of the bounds.
InitCodec ==
    RouteInit /\ RequestsInit /\ CodecInit /\ response = NoResponse /\ RestInit

NextCodec == CallSerialize \/ CallParse

SpecCodec == InitCodec /\ [][NextCodec]_vars

\* Response.ok read on a Response of every status of the bounds.
InitResponse ==
    RouteInit /\ RequestsInit /\ codec = NoCodec /\ ResponseInit /\ RestInit

NextResponse == ReadOk

SpecResponse == InitResponse /\ [][NextResponse]_vars

----------------------------------------------------------------------------
(* Route disposition: claims C1, C2 *)

\* The messages the channel has received for Route r, in order.
MessagesOf(r) == SelectSeq(channel, LAMBDA m : m.guid = r)

\* The disposition of Route r as the channel sees it: decided by the first action sent.
Disposition(r) ==
    IF MessagesOf(r) = <<>> THEN "Pending"
    ELSE CASE MessagesOf(r)[1].method = "abort" -> "Aborted"
           [] MessagesOf(r)[1].method = "continue" -> "Continued"
           [] MessagesOf(r)[1].method = "fulfill" -> "Fulfilled"

\* C1: once one action has brought a Route to a terminal state, a further
\* disposition action on it raises ProtocolViolation to its caller and sends no
\* message to the channel. (The code sends the second action like the first.)
C1_SecondActionRaisesLocally ==
    [][\A r \in Routes :
          (Disposition(r) # "Pending" /\ pc[r] = "running" /\ pc'[r] # "running")
          => (MessagesOf(r)' = MessagesOf(r) /\ result'[r] = "ProtocolViolation")]_vars

\* C2: a Route's disposition changes at most once: the first action sends exactly
\* one message with the matching operation name, and no later call makes a second
\* disposition message for that Route reach the channel.
C2_AtMostOneDispositionMessage ==
    \A r \in Routes :
        /\ Len(MessagesOf(r)) <= 1
        /\ Disposition(r) = "Pending" <=> MessagesOf(r) = <<>>

----------------------------------------------------------------------------
(* Redirect links: claims C3, C4 *)

\* r.redirectedFrom / r.redirectedTo (lines 100-106) read the two slots.
redirectedFrom(r) == redirected_from[r]
redirectedTo(r) == redirected_to[r]

\* C3: constructing Request b whose initializer names a as redirectedFrom gives
\* b.redirectedFrom = a, a.redirectedTo = b, b.redirectedTo absent and leaves
\* a.redirectedFrom as it was; constructing b with no predecessor leaves both of
\* its links absent and changes no other Request.
C3_ConstructionSetsLinks ==
    [][\A b \in RequestIds :
          (b \notin requests /\ b \in requests') =>
              IF initializer'[b] # None
              THEN LET a == initializer'[b][1]
                   IN /\ redirected_from'[b] = Some(a)
                      /\ redirected_to'[a] = Some(b)
                      /\ redirected_to'[b] = None
                      /\ redirected_from'[a] = redirected_from[a]
              ELSE /\ redirectedFrom(b)' = None
                   /\ redirectedTo(b)' = None
                   /\ \A a \in requests :
                          /\ redirectedFrom(a)' = redirectedFrom(a)
                          /\ redirectedTo(a)' = redirectedTo(a)]_vars

\* A redirect has been constructed after a Request without predecessor.
C3_Witness ==
    \E a, b \in requests :
        /\ initializer[a] = None /\ redirectedFrom(a) = None
        /\ initializer[b] = Some(a)
        /\ redirectedFrom(b) = Some(a) /\ redirectedTo(a) = Some(b)

\* The Requests reachable from r by following redirectedTo at least once.
RECURSIVE ReachableTo(_, _)
ReachableTo(r, fuel) ==
    IF fuel = 0 \/ redirectedTo(r) = None THEN {}
    ELSE {redirectedTo(r)[1]} \cup ReachableTo(redirectedTo(r)[1], fuel - 1)

ChainsLinked ==
    \A r \in requests :
        /\ redirectedTo(r) # None => redirectedFrom(redirectedTo(r)[1]) = Some(r)
        /\ redirectedFrom(r) # None => redirectedTo(redirectedFrom(r)[1]) = Some(r)
        /\ r \notin ReachableTo(r, MaxRequests)

\* C4: after any sequence of constructions (two Requests with the same predecessor
\* included) the links form acyclic doubly-linked chains, and a redirectedTo, once
\* set, is never overwritten with a different Request.
C4_AcyclicDoublyLinkedChains ==
    [][/\ ChainsLinked'
       /\ \A r \in requests :
              redirectedTo(r) # None => redirectedTo(r)' = redirectedTo(r)]_vars

----------------------------------------------------------------------------
(* Header codec: claims C5, C6 *)

\* C5: for every mapping M, serialize_headers(M) has exactly one {name, value}
\* entry per entry of M, in M's insertion order, and
\* parse_headers(serialize_headers(M)) == M.
C5_HeaderRoundTrip ==
    (codec.src = "map" /\ codec.wire # None) =>
        LET M == codec.map[1]
            L == codec.wire[1]
        IN /\ Len(L) = Len(M)
           /\ \A i \in 1..Len(M) : L[i].name = M[i][1] /\ L[i].value = M[i][2]
           /\ codec.out # None => DictEq(codec.out[1], M)

\* A mapping with keys differing only in case has made the round trip.
C5_Witness ==
    /\ codec.src = "map" /\ codec.out # None
    /\ {"A", "a"} \subseteq DictKeys(codec.map[1])

\* C6: parse_headers(L) maps each name occurring in L to the value of the last
\* entry of L with exactly that name, folds no case, and has no other key.
C6_ParseLastWins ==
    (codec.wire # None /\ codec.out # None) =>
        LET L == codec.wire[1]
            D == codec.out[1]
        IN /\ DictKeys(D) = {L[i].name : i \in 1..Len(L)}
           /\ \A i, j \in 1..Len(D) : D[i][1] = D[j][1] => i = j
           /\ \A i \in 1..Len(L) :
                  (\A j \in (i + 1)..Len(L) : L[j].name # L[i].name)
                  => DictGet(D, L[i].name) = L[i].value

\* [("A","1"), ("a","1"), ("A","2")] has been parsed to {"A": "2", "a": "1"}.
C6_Witness ==
    /\ codec.src = "wire" /\ codec.out # None
    /\ codec.wire[1] = <<[name |-> "A", value |-> "1"], [name |-> "a", value |-> "1"],
                         [name |-> "A", value |-> "2"]>>
    /\ codec.out[1] = <<<<"A", "2">>, <<"a", "1">>>>

----------------------------------------------------------------------------
(* Response.ok: claim C7 *)

\* C7: Response.ok is true exactly when status is 0 or within 200..299; 199 and
\* 300 give false, 0, 200 and 299 give true.
C7_OkBoundary ==
    response.ok # None =>
        /\ response.ok[1] = (response.status \in ({0} \cup (200..299)))
        /\ response.status \in {0, 200, 299} => response.ok[1] = TRUE
        /\ response.status \in {199, 300} => response.ok[1] = FALSE

\* ok has been read on a Response of status 299 and returned true.
C7_Witness == response.status = 299 /\ response.ok = Some(TRUE)

----------------------------------------------------------------------------
(* Route.fulfill: claims C8, C9, C10 *)

\* Route r has sent its fulfill and is suspended on the reply: its arguments are
\* frame[r].args and its message is the last one of r on the channel.
FulfillSent(r) == pc[r] = "awaiting" /\ frame[r].method = "fulfill"

LastParams(r) == MessagesOf(r)[Len(MessagesOf(r))].params

\* The values of the entries called `name` in a header list, in order.
RECURSIVE WireValues(_, _)
WireValues(wire, name) ==
    IF wire = <<>> THEN <<>>
    ELSE IF Head(wire).name = name
         THEN <<Head(wire).value>> \o WireValues(Tail(wire), name)
         ELSE WireValues(Tail(wire), name)

\* The caller's header entries whose name is `lname` up to letter case.
CallerEntries(args, lname) ==
    IF args.headers = None THEN {}
    ELSE {i \in 1..Len(args.headers[1]) : Lower(args.headers[1][i][1]) = lname}

CallerSupplied(args, lname) == CallerEntries(args, lname) # {}

\* The value of the last such entry of the caller's mapping.
CallerValue(args, lname) ==
    LET last == CHOOSE i \in CallerEntries(args, lname) :
                    \A j \in CallerEntries(args, lname) : j <= i
    IN args.headers[1][last][2]

\* Bytes of the UTF-8 encoding of a text: 1 to 4 per code point.
RECURSIVE Utf8Length(_)
Utf8Length(t) ==
    IF t = <<>> THEN 0
    ELSE (IF Head(t) < 128 THEN 1 ELSE IF Head(t) < 2048 THEN 2
          ELSE IF Head(t) < 65536 THEN 3 ELSE 4) + Utf8Length(Tail(t))

\* The raw bytes of a bytes body, or of the file a path names.
RawBody(args) ==
    IF IsBytes(args.body) THEN args.body[1].val ELSE ReadBytes(args.path[1])

BinaryBody(args) == IsBytes(args.body) \/ (args.body = None /\ args.path # None)

\* The body fields of claim C8: a text goes verbatim with isBase64 = false, raw
\* bytes go as their base64 text with isBase64 = true.
BodyFieldsSent(args, params) ==
    /\ IsStr(args.body) =>
           params["body"] = args.body[1].val /\ params["isBase64"] = FALSE
    /\ BinaryBody(args) =>
           B64Decode(params["body"]) = RawBody(args) /\ params["isBase64"] = TRUE

BodyByteLength(args) ==
    IF IsStr(args.body) THEN Utf8Length(args.body[1].val) ELSE Len(RawBody(args))

HasBody(args) == IsStr(args.body) \/ BinaryBody(args)

\* C8 as stated: a text body is sent verbatim with isBase64 = false and a derived
\* content-length equal to the byte length of its UTF-8 encoding; a raw-bytes body
\* (or one read from path) is sent as base64 with isBase64 = true and a derived
\* content-length equal to the number of raw bytes. The length is derived when the
\* caller supplied no content-length header.
C8_Original_LengthAlwaysDerived ==
    \A r \in Routes :
        (FulfillSent(r) /\ HasBody(frame[r].args)) =>
            LET args == frame[r].args
                params == LastParams(r)
            IN /\ BodyFieldsSent(args, params)
               /\ ~CallerSupplied(args, "content-length") =>
                      WireValues(params["headers"], "content-length")
                          = <<IntToStr(BodyByteLength(args))>>

\* C8 amended: as C8 for a body of at least one byte; for a body of zero bytes
\* (empty text, empty bytes, empty file) body and isBase64 are sent as stated and
\* no content-length is derived.
C8_BodyEncodingAndLength ==
    \A r \in Routes :
        (FulfillSent(r) /\ HasBody(frame[r].args)) =>
            LET args == frame[r].args
                params == LastParams(r)
            IN /\ BodyFieldsSent(args, params)
               /\ ~CallerSupplied(args, "content-length") =>
                      WireValues(params["headers"], "content-length")
                          = IF BodyByteLength(args) > 0
                            THEN <<IntToStr(BodyByteLength(args))>>
                            ELSE <<>>

\* A two-character text body of five UTF-8 bytes has been sent with content-length 5.
C8_Witness ==
    \E r \in Routes :
        /\ FulfillSent(r)
        /\ frame[r].args.body = Str(<<233, 8364>>)
        /\ LastParams(r)["isBase64"] = FALSE
        /\ WireValues(LastParams(r)["headers"], "content-length") = <<"5">>

GuessOrDefault(path) ==
    IF GuessType(path) # None THEN GuessType(path)[1] ELSE "application/octet-stream"

\* C9 as stated: the content-type sent is resolved in the order explicit
\* contentType > caller-supplied content-type header > guess from path > unset.
C9_Original_HeaderBeforePath ==
    \A r \in Routes :
        FulfillSent(r) =>
            LET args == frame[r].args
            IN WireValues(LastParams(r)["headers"], "content-type")
                   = IF args.contentType # None THEN <<args.contentType[1]>>
                     ELSE IF CallerSupplied(args, "content-type")
                          THEN <<CallerValue(args, "content-type")>>
                     ELSE IF args.path # None THEN <<GuessOrDefault(args.path[1])>>
                     ELSE <<>>

\* C9 amended: the order is explicit contentType > guess from path >
\* caller-supplied content-type header > unset: an explicit contentType overwrites
\* any content-type header, and the path-based guess replaces a caller-supplied
\* content-type header.
C9_ContentTypeResolution ==
    \A r \in Routes :
        FulfillSent(r) =>
            LET args == frame[r].args
            IN WireValues(LastParams(r)["headers"], "content-type")
                   = IF args.contentType # None THEN <<args.contentType[1]>>
                     ELSE IF args.path # None THEN <<GuessOrDefault(args.path[1])>>
                     ELSE IF CallerSupplied(args, "content-type")
                          THEN <<CallerValue(args, "content-type")>>
                     ELSE <<>>

\* fulfill(path="icon.png", headers={"Content-Type": "text/plain"}) has sent image/png.
C9_Witness ==
    \E r \in Routes :
        /\ FulfillSent(r)
        /\ frame[r].args.contentType = None
        /\ frame[r].args.path = Some("icon.png")
        /\ frame[r].args.headers = Some(<<<<"Content-Type", "text/plain">>>>)
        /\ WireValues(LastParams(r)["headers"], "content-type") = <<"image/png">>

\* C10: with a path, no contentType and no content-type header, the content-type
\* sent is the mime type of the path's extension (image/png for icon.png) and
\* application/octet-stream when the lookup knows none; with neither contentType,
\* nor a content-type header, nor a path, no content-type header is sent.
C10_PathGuessOrOctetStream ==
    \A r \in Routes :
        (/\ FulfillSent(r)
         /\ frame[r].args.contentType = None
         /\ ~CallerSupplied(frame[r].args, "content-type")) =>
            LET path == frame[r].args.path
                sent == WireValues(LastParams(r)["headers"], "content-type")
            IN /\ path = None => sent = <<>>
               /\ path = Some("icon.png") => sent = <<"image/png">>
               /\ (path # None /\ GuessType(path[1]) = None) =>
                      sent = <<"application/octet-stream">>
               /\ (path # None /\ GuessType(path[1]) # None) =>
                      sent = <<GuessType(path[1])[1]>>

\* fulfill(path="file.zzz"), an extension the lookup does not know, has been sent.
C10_Witness ==
    \E r \in Routes :
        /\ FulfillSent(r)
        /\ frame[r].args.contentType = None /\ frame[r].args.headers = None
        /\ frame[r].args.path = Some("file.zzz")
        /\ WireValues(LastParams(r)["headers"], "content-type")
               = <<"application/octet-stream">>
----------------------------------------------------------------------------
(* Route.fulfill: claim C11 *)

\* C11 as stated: for every fulfill call with a resolved body (a body of zero bytes
\* included) the headers sent carry a content-length equal to the body's byte
\* length whenever the caller supplied no content-length header (names compared
\* case-insensitively); a content-length supplied by the caller is sent unchanged
\* and no second entry is added.
C11_Original_LengthAlsoForEmptyBody ==
    \A r \in Routes :
        (FulfillSent(r) /\ HasBody(frame[r].args)) =>
            WireValues(LastParams(r)["headers"], "content-length")
                = IF CallerSupplied(frame[r].args, "content-length")
                  THEN <<CallerValue(frame[r].args, "content-length")>>
                  ELSE <<IntToStr(BodyByteLength(frame[r].args))>>

\* C11 amended: as C11 for a resolved body of at least one byte; for a resolved
\* body of zero bytes no content-length entry is added. A content-length supplied
\* by the caller is sent unchanged, alone, whatever the body.
C11_ContentLengthHeader ==
    \A r \in Routes :
        (FulfillSent(r) /\ HasBody(frame[r].args)) =>
            WireValues(LastParams(r)["headers"], "content-length")
                = IF CallerSupplied(frame[r].args, "content-length")
                  THEN <<CallerValue(frame[r].args, "content-length")>>
                  ELSE IF BodyByteLength(frame[r].args) > 0
                  THEN <<IntToStr(BodyByteLength(frame[r].args))>>
                  ELSE <<>>

\* fulfill(body=b"\x00\xff", headers={"Content-Length": "99"}) has sent "99" alone.
C11_Witness ==
    \E r \in Routes :
        /\ FulfillSent(r)
        /\ frame[r].args.body = Bytes(<<0, 255>>)
        /\ frame[r].args.headers = Some(<<<<"Content-Length", "99">>>>)
        /\ WireValues(LastParams(r)["headers"], "content-length") = <<"99">>
----------------------------------------------------------------------------
(* Route.continue_: claims C12, C19 *)

ContinueSent(r) == pc[r] = "awaiting" /\ frame[r].method = "continue"

\* The arguments of continue_ the caller supplied (passed something other than None).
Supplied(args) == {k \in {"method", "headers", "postData"} : args[k] # None}

\* C12: the continue payload has a field for exactly those of method, headers and
\* postData the caller supplied (an empty method string or an empty headers mapping
\* included) and none for the omitted ones; a supplied method is sent as given and
\* a supplied headers mapping as the ordered list of its entries.
C12_Original_ExactlyTheSuppliedOverrides ==
    \A r \in Routes :
        ContinueSent(r) =>
            /\ DOMAIN LastParams(r) = Supplied(frame[r].args)
            /\ frame[r].args.method # None =>
                   LastParams(r)["method"] = frame[r].args.method[1]
            /\ frame[r].args.headers # None =>
                   LastParams(r)["headers"] = serialize_headers(frame[r].args.headers[1])

\* The bytes a caller's postData stands for: the UTF-8 bytes of a text, the bytes themselves.
PostDataBytes(args) ==
    IF IsStr(args.postData) THEN StrEncode(args.postData[1].val) ELSE args.postData[1].val

\* C19: continue_ with a text postData and continue_ with the UTF-8 bytes of that
\* text send the same postData; what is sent for a text or for bytes (empty ones
\* included) is the standard base64 text of the bytes, and decoding it gives the
\* bytes back.
C19_TextAndBytesPostDataAgree ==
    /\ \A r \in Routes :
           (ContinueSent(r) /\ frame[r].args.postData # None) =>
               /\ "postData" \in DOMAIN LastParams(r)
               /\ LastParams(r)["postData"] = B64Encode(PostDataBytes(frame[r].args))
               /\ B64Decode(LastParams(r)["postData"]) = PostDataBytes(frame[r].args)
    /\ (ContinueSent(1) /\ ContinueSent(2) /\ frame[1].args.postData # None) =>
           LastParams(1)["postData"] = LastParams(2)["postData"]

\* continue_(postData="\u00e9") and continue_(postData=b"\xc3\xa9") have both sent "w6k=".
C19_Witness ==
    /\ ContinueSent(1) /\ ContinueSent(2)
    /\ frame[1].args.postData = Str(<<233>>)
    /\ frame[2].args.postData = Bytes(<<195, 169>>)
    /\ LastParams(1)["postData"] = <<119, 54, 107, 61>>
    /\ LastParams(2)["postData"] = <<119, 54, 107, 61>>
----------------------------------------------------------------------------
(* Header names on the wire: claim C20 *)

WireNames(wire) == {wire[i].name : i \in 1..Len(wire)}

\* The lower-cased names of the caller's headers mapping.
CallerLowerNames(args) ==
    IF args.headers = None THEN {}
    ELSE {Lower(args.headers[1][i][1]) : i \in 1..Len(args.headers[1])}

\* fulfill replaces the caller's content-type by a derived one (see C9).
ContentTypeDerived(args) == Truthy(args.contentType) \/ Truthy(args.path)

\* C20: every header name fulfill sends is the lower-cased form of a name of the
\* caller (or a derived content-type / content-length); names of the caller that
\* differ only in letter case collapse into one entry with the value of the last
\* of them; the list sent never has two entries whose names are equal up to letter
\* case; continue_ sends the caller's names as written, one entry per name.
C20_FulfillLowersNamesContinueKeepsThem ==
    \A r \in Routes :
        /\ FulfillSent(r) =>
              LET args == frame[r].args
                  wire == LastParams(r)["headers"]
              IN /\ CallerLowerNames(args) \subseteq WireNames(wire)
                 /\ WireNames(wire) \subseteq
                        CallerLowerNames(args) \cup {"content-type", "content-length"}
                 /\ \A i, j \in 1..Len(wire) :
                        Lower(wire[i].name) = Lower(wire[j].name) => i = j
                 /\ \A n \in CallerLowerNames(args) :
                        (n = "content-type" => ~ContentTypeDerived(args)) =>
                            WireValues(wire, n) = <<CallerValue(args, n)>>
        /\ (ContinueSent(r) /\ "headers" \in DOMAIN LastParams(r)) =>
              LET given == frame[r].args.headers[1]
                  wire == LastParams(r)["headers"]
              IN /\ Len(wire) = Len(given)
                 /\ \A i \in 1..Len(given) :
                        wire[i].name = given[i][1] /\ wire[i].value = given[i][2]

\* {"X-Foo": "1", "X-FOO": "2"}: fulfill has sent x-foo: 2 alone, continue_ both names.
C20_Witness ==
    /\ FulfillSent(1) /\ ContinueSent(2)
    /\ frame[1].args.headers = Some(<<<<"X-Foo", "1">>, <<"X-FOO", "2">>>>)
    /\ WireValues(LastParams(1)["headers"], "x-foo") = <<"2">>
    /\ WireNames(LastParams(2)["headers"]) = {"X-Foo", "X-FOO"}
----------------------------------------------------------------------------
(* Route.fulfill: claim C16 *)

\* The request fields of the fulfill operation of the remote call contract.
FulfillFields == {"status", "headers", "body", "isBase64", "contentType"}

\* C16: the fulfill payload has only the fields status, headers, body, isBase64 and
\* contentType: never a path field, always an isBase64 field and always a headers
\* field, also when both body and path are supplied and when neither is.
C16_PayloadFields ==
    \A r \in Routes :
        FulfillSent(r) =>
            /\ DOMAIN LastParams(r) \subseteq FulfillFields
            /\ "path" \notin DOMAIN LastParams(r)
            /\ "isBase64" \in DOMAIN LastParams(r)
            /\ "headers" \in DOMAIN LastParams(r)
----------------------------------------------------------------------------
(* Request redirect links as readers see them: claim C17 *)

\* Request.__init__ has no await: it runs to its end before any reader runs, so the
\* Requests a reader can hold are those of `requests`, in the states between two
\* constructions.

\* C17: in every state in which a Request B constructed with predecessor A is
\* visible to a reader, A.redirectedTo is B: B.redirectedFrom == A is never readable
\* while A.redirectedTo is absent or names another Request.
C17_NoTornRedirectLink ==
    \A b \in requests :
        redirectedFrom(b) # None =>
            redirectedTo(redirectedFrom(b)[1]) = Some(b)

\* What the constructor does guarantee: the predecessor's link is never absent and
\* never older than B; it names the Request constructed last with that predecessor.
LinkNeverAbsentOrOlder ==
    \A b \in requests :
        redirectedFrom(b) # None =>
            /\ redirectedTo(redirectedFrom(b)[1]) # None
            /\ redirectedTo(redirectedFrom(b)[1])[1] >= b
            /\ redirectedFrom(redirectedTo(redirectedFrom(b)[1])[1]) = redirectedFrom(b)
----------------------------------------------------------------------------
(* Request.postDataJSON: claims C13, C14 *)

JsonRead == req.json.kind # "unread"

\* The Request has no post payload: no initializer postData, or one of zero bytes.
NoPayload == req.postData = None \/ B64Decode(req.postData[1]) = <<>>

\* The values of the content-type entries delivered with the Request, in order.
ContentTypeValues == WireValues(req.headers, "content-type")

\* C13: postDataJSON returns absent and raises no error whenever the Request has
\* no post payload or its headers have no content-type entry.
C13_AbsentDataIsNeverAnError ==
    (JsonRead /\ (NoPayload \/ ContentTypeValues = <<>>)) => req.json.kind = "None"

\* The payload is a text: bytes that are well-formed UTF-8.
PayloadText == BytesDecode(B64Decode(req.postData[1]))

HasPayloadText == ~NoPayload /\ Utf8Valid(B64Decode(req.postData[1]))

\* The content-type of the Request: the value of the last content-type entry.
ContentTypeValue == ContentTypeValues[Len(ContentTypeValues)]

\* What is expected of a payload text parsed as JSON.
ParsedAsJson(out, text) ==
    IF JsonLoads(text) = None THEN out.kind = "JSONDecodeError"
    ELSE out.kind = "json" /\ out.val = JsonLoads(text)[1]

\* C14 as stated: with a non-empty payload text and a content-type header,
\* postDataJSON returns the map of the URL-encoded pairs of the text when the
\* content-type is exactly application/x-www-form-urlencoded, and for every other
\* content-type value the JSON value of the text, failing with a parse error when
\* the text is not valid JSON.
C14_Original_FormOrJson ==
    (JsonRead /\ HasPayloadText /\ ContentTypeValues # <<>>) =>
        IF ContentTypeValue = "application/x-www-form-urlencoded"
        THEN req.json.kind = "dict" /\ req.json.val = ParseQsl(PayloadText)
        ELSE ParsedAsJson(req.json, PayloadText)

\* C14 amended: as C14 for every non-empty content-type value; a content-type
\* entry with an empty value makes postDataJSON return absent.
C14_FormOrJsonByContentType ==
    (JsonRead /\ HasPayloadText /\ ContentTypeValues # <<>>) =>
        IF ContentTypeValue = "" THEN req.json.kind = "None"
        ELSE IF ContentTypeValue = "application/x-www-form-urlencoded"
        THEN req.json.kind = "dict" /\ req.json.val = ParseQsl(PayloadText)
        ELSE ParsedAsJson(req.json, PayloadText)

\* a=1&b=2 sent as application/x-www-form-urlencoded has been read as {a: 1, b: 2}.
C14_Witness ==
    /\ HasPayloadText
    /\ PayloadText = FormText
    /\ ContentTypeValues = <<"application/x-www-form-urlencoded">>
    /\ req.json.kind = "dict"
    /\ req.json.val = <<<<"a", "1">>, <<"b", "2">>>>

----------------------------------------------------------------------------
(* Remote calls and the session: claims C15, C18 *)

\* C15: when the session is disposed while a remote call is outstanding (a Route
\* action, Request.response, Response.finished, Response.body, or the body call of
\* Response.text / Response.json) and the channel fails the call with the disposed
\* error, the caller eventually gets that error back: it is not swallowed, not
\* turned into a normal result, and the caller is not left suspended.
C15_DisposedErrorReachesCaller ==
    /\ \A r \in Routes :
           (pc[r] = "awaiting" /\ session = "disposed")
               ~> (pc[r] = "idle" /\ result[r] = "Disposed")
    /\ \A method \in ObjectMethods :
           (coro.pc = "awaiting" /\ coro.method = method /\ session = "disposed")
               ~> (coro.pc = "idle" /\ coro.done = method /\ coro.result.kind = "Disposed")

\* response.json() was outstanding when the session was disposed and raised the
\* disposed error.
C15_Witness ==
    /\ session = "disposed"
    /\ coro.pc = "idle" /\ coro.done = "json"
    /\ coro.result.kind = "Disposed"
    /\ Len(MessagesOf(ObjectGuid)) = 1

\* The last body(), text() or json() call got the body from the channel.
BodyFetched ==
    /\ coro.done \in {"body", "text", "json"}
    /\ coro.result.kind \notin {"RemoteCallFailure", "Disposed"}

\* C18: body() is cached per Response: once a body(), text() or json() call has
\* fetched the body, no later call on that Response sends a `body` remote call.
C18_BodyFetchedOnce ==
    [][BodyFetched => MessagesOf(ObjectGuid)' = MessagesOf(ObjectGuid)]_vars
====
